---- MODULE Spec2Model ----
(***************************************************************************)
(* Model of the DDQ chat backend: the /api/chat handler of app.py with the *)
(* search, completion and blob-storage services it calls.                  *)
(*                                                                         *)
(* A Python str is a sequence of tokens (a token is one character, or an   *)
(* opaque chunk of text such as a file name or a fixed message).  A Python *)
(* or JSON value is a record [type, val]: None is [type |-> "null"], a     *)
(* dictionary key that is not there is Absent.                             *)
(***************************************************************************)
EXTENDS Integers, Sequences, FiniteSets, TLC

\* ------------------------------------------------------------------ bounds
MaxHits == 2            \* most results the index returns to one query
MaxChoices == 2         \* most choices a completion carries
MaxUploads == 2         \* most upload_document calls one client makes to the store
MaxClock == 2           \* last tick of the clock
TicksPerSecond == 2     \* clock ticks in one second of datetime.now()

\* ------------------------------------------------------- program constants
TopN == 3               \* search_documents(user_question, top=3)
NamePrefixLen == 20     \* user_question[:20]
SafePrefixLen == 30     \* question[:30]
RuleWidth == 80         \* "_" * 80

\* ------------------------------------------------------------------ values
None == [type |-> "null", val |-> <<>>]
Absent == [type |-> "absent", val |-> <<>>]
Str(s) == [type |-> "string", val |-> s]
Num(n) == [type |-> "number", val |-> n]

IsStr(v) == v.type = "string"

Truthy_NotNone(v) == v.type \notin {"null", "absent"}

\* Python truthiness of a value: None, "" and 0 are falsy.
Truthy(v) ==
    CASE v.type = "string" -> v.val # <<>>
      [] v.type = "number" -> v.val # <<"0">>
      [] OTHER -> FALSE

\* dict.get(key, default): the default only when the key is not there.
DictGet(v, default) == IF v = Absent THEN default ELSE v

\* str(v) as an f-string renders it.
Format(v) == IF v.type = "null" THEN <<"None">> ELSE v.val

Min(a, b) == IF a < b THEN a ELSE b

\* s[:n]
Slice(s, n) == SubSeq(s, 1, Min(Len(s), n))

\* s.replace(old, new) for one-character old and new.
Replace(s, old, new) == [i \in 1..Len(s) |-> IF s[i] = old THEN new ELSE s[i]]

\* ------------------------------------------------------------------ inputs
ShortStrings == {<<"a">>, <<"a", " ", "/">>}

\* A question longer than the name prefix.
LongString == [i \in 1..(NamePrefixLen + 1) |-> IF i = 3 THEN " " ELSE "a"]

PromptValues ==
    {Absent, None, Str(<<>>), Num(<<"0">>), Num(<<"5">>), Str(LongString)}
        \cup {Str(s) : s \in ShortStrings}

\* The request body as request.get_json() meets it: a JSON object with or
\* without a prompt, a JSON value that is no object, or text that is no JSON.
\* "history": [] as the front end sends it.
EmptyList == [type |-> "array", val |-> <<>>]

Bodies ==
    {[kind |-> "object", prompt |-> p, history |-> Absent] : p \in PromptValues}
        \cup {[kind |-> "object", prompt |-> p, history |-> EmptyList] :
                    p \in {Absent, Str(<<"a">>)}}
        \cup {[kind |-> "array", prompt |-> Absent, history |-> Absent],
              [kind |-> "malformed", prompt |-> Absent, history |-> Absent]}

\* The requests the process may be handling.
Requests == {"r1", "r2"}

\* What the index holds for a hit: the fields search_documents reads with a
\* default.  A field may hold a name, hold null, or not be there.
UpstreamResults ==
    {[sourceFile |-> Str(<<"A.pdf">>), content |-> Str(<<"c1">>)],
     [sourceFile |-> Str(<<"A.pdf">>), content |-> Str(<<"c2">>)],
     [sourceFile |-> Str(<<"B.pdf">>), content |-> Absent],
     [sourceFile |-> Absent, content |-> Str(<<"c1">>)],
     [sourceFile |-> None, content |-> Str(<<"c1">>)]}

\* The result sets the index can answer a query of at most `top` hits with.
UpstreamHits(top) == UNION {[1..n -> UpstreamResults] : n \in 0..Min(top, MaxHits)}

Answers == {<<"answer1">>, <<"answer2">>}

\* completion.choices, each choice given by its message.content.
ChoiceLists == UNION {[1..n -> Answers] : n \in 0..MaxChoices}

\* os.urandom(4).hex()
RandomHex == {<<"0a1b2c3d">>, <<"deadbeef">>}

Diagnostics == {<<"ConnectionError: upstream unreachable">>}

VARIABLES
    SYSTEM_PROMPT,      \* app.py module global, read once at start
    search_service,     \* app.py module global: "AzureSearchService" or "None"
    blob_service,       \* app.py module global: "BlobStorageService" or "None"
    container,          \* the blob container: a set of blobs [name, content, content_type]
    pc,                 \* per request: the stage the handler is at
    body,               \* per request: the JSON body it carries
    user_question,
    upstream,           \* per request: the hits the index answered its query with
    search_results,     \* per request: what search_documents returned
    search_context,
    source_files,       \* the set object of the handler
    source_order,       \* the order in which that set object iterates
    messages,
    completion,         \* per request: what get_openai_completion returned
    ai_response_text,
    document_url,
    response,           \* per request: [status, body] once returned
    calls,              \* per request: the external calls made, in order, with their outcome
    uploaded,           \* per request: the arguments of its upload_document call
    printed,            \* per request: the diagnostics it printed
    clock,              \* datetime.now(), in ticks
    docx                \* per caller of generate_and_upload_docx: its locals

vars == <<SYSTEM_PROMPT, search_service, blob_service, container, pc, body,
          user_question, upstream, search_results, search_context, source_files,
          source_order, messages, completion, ai_response_text, document_url,
          response, calls, uploaded, printed, clock, docx>>

NoResponse == [status |-> 0, body |-> [pending |-> TRUE]]
NoUpload == [called |-> FALSE, stored |-> FALSE]
NoCompletion == [returned |-> FALSE, choices |-> <<>>]
NoSearchResults == [returned |-> FALSE, count |-> 0, results |-> <<>>]

\* The callers of generate_and_upload_docx.
Callers == {"c1", "c2"}

NoDocx ==
    [pc |-> "Idle", question |-> <<>>, answer |-> <<>>, sources |-> <<>>,
     timestamp |-> <<>>, blob_name |-> <<>>, docx_bytes |-> None, document_url |-> None]

\* One external call of a request: which one, whether it raised, and what
\* it returned to chat_handler (kept for upload_document only).
Call(name, raised, returned) == [call |-> name, raised |-> raised, returned |-> returned]

Init ==
    /\ SYSTEM_PROMPT \in {<<"<system_prompt.txt>">>, <<"You are a helpful AI assistant.">>}
    /\ search_service \in {"AzureSearchService", "None"}
    /\ blob_service \in {"BlobStorageService", "None"}
    /\ container = {}
    /\ pc = [r \in Requests |-> "Idle"]
    /\ body = [r \in Requests |-> [kind |-> "none", prompt |-> Absent, history |-> Absent]]
    /\ user_question = [r \in Requests |-> None]
    /\ upstream = [r \in Requests |-> <<>>]
    /\ search_results = [r \in Requests |-> NoSearchResults]
    /\ search_context = [r \in Requests |-> <<>>]
    /\ source_files = [r \in Requests |-> {}]
    /\ source_order = [r \in Requests |-> <<>>]
    /\ messages = [r \in Requests |-> <<>>]
    /\ completion = [r \in Requests |-> NoCompletion]
    /\ ai_response_text = [r \in Requests |-> None]
    /\ document_url = [r \in Requests |-> None]
    /\ response = [r \in Requests |-> NoResponse]
    /\ calls = [r \in Requests |-> <<>>]
    /\ uploaded = [r \in Requests |-> NoUpload]
    /\ printed = [r \in Requests |-> <<>>]
    /\ clock = 0
    /\ docx = [c \in Callers |-> NoDocx]

\* jsonify({"error": msg}), status
ErrorResponse(msg, status) == [status |-> status, body |-> [error |-> msg]]

\* Line 67.
NoPromptError == ErrorResponse(<<"No prompt provided">>, 400)

InternalError_Leaks(e) == ErrorResponse(<<"An internal server error occurred: ">> \o e, 500)

\* Lines 130-137: the outer handler, given the exception text e.
InternalError(e) == ErrorResponse(<<"An internal server error occurred">>, 500)

CompletionError_Leaks(e) == ErrorResponse(<<"Failed to get response from AI model: ">> \o e, 500)

\* Lines 101-103: the handler of the completion call, given the exception text e.
CompletionError(e) == ErrorResponse(<<"Failed to get response from AI model">>, 500)

SearchConfigured_Never == FALSE

\* Line 72: if search_service
SearchConfigured == search_service # "None"

StoreConfigured_Always == TRUE

\* Line 109: if blob_service
StoreConfigured == blob_service # "None"

\* Lines 61-67: the body is parsed and the prompt validated.
ReceiveFrom(r, bodies) ==
    /\ pc[r] = "Idle"
    /\ \E b \in bodies :
        /\ body' = [body EXCEPT ![r] = b]
        /\ IF b.kind # "object"
           THEN \* get_json() raises, or data.get raises on a value that is no dict
                \E e \in Diagnostics :
                /\ response' = [response EXCEPT ![r] = InternalError(e)]
                /\ pc' = [pc EXCEPT ![r] = "Errored"]
                /\ printed' = [printed EXCEPT ![r] = Append(@, e)]
                /\ UNCHANGED user_question
           ELSE LET q == DictGet(b.prompt, None) IN
                /\ user_question' = [user_question EXCEPT ![r] = q]
                /\ printed' = printed
                /\ IF ~Truthy(q)
                   THEN /\ response' = [response EXCEPT ![r] = NoPromptError]
                        /\ pc' = [pc EXCEPT ![r] = "Errored"]
                   ELSE /\ response' = response
                        /\ pc' = [pc EXCEPT ![r] = "Retrieving"]
    /\ UNCHANGED <<clock, docx>>
    /\ UNCHANGED <<SYSTEM_PROMPT, search_service, blob_service, upstream, container,
                   search_results, search_context, source_files, source_order,
                   messages, completion, ai_response_text, document_url, calls,
                   uploaded>>

Receive(r) == ReceiveFrom(r, Bodies)

\* search_documents: each hit becomes a document dict whose content and
\* sourceFile default to "" when the index does not return the field.
SearchDocuments(hits) ==
    [returned |-> TRUE,
     count |-> Len(hits),
     results |-> [i \in 1..Len(hits) |->
                    [content |-> DictGet(hits[i].content, Str(<<>>)),
                     sourceFile |-> DictGet(hits[i].sourceFile, Str(<<>>))]]]

\* Lines 79-80: what chat_handler reads from one result.
ContentSnippet(result) == DictGet(result.content, Str(<<>>))
SourceFile(result) == DictGet(result.sourceFile, Str(<<"Unknown Source">>))

\* Line 81: the block one result adds to the context.
SnippetBlock(result) ==
    <<"\n---\nSource: ">> \o Format(SourceFile(result))
        \o <<"\nSnippet: ">> \o Format(ContentSnippet(result)) \o <<"\n---">>

RECURSIVE SnippetBlocks(_)
SnippetBlocks(results) ==
    IF results = <<>> THEN <<>>
    ELSE SnippetBlocks(SubSeq(results, 1, Len(results) - 1))
            \o SnippetBlock(results[Len(results)])

ContextOf_Shared(results) ==
    LET earlier == {q \in Requests : search_context[q] # <<>>} IN
    IF earlier = {}
    THEN IF results # <<>>
         THEN <<"\n\nRelevant Document Snippets:\n">> \o SnippetBlocks(results)
         ELSE <<"\n\nNo relevant documents found in the search index for this query.">>
    ELSE search_context[CHOOSE q \in earlier : TRUE] \o SnippetBlocks(results)

\* Lines 75-84: the context block built from what search_documents returned.
ContextOf(results) ==
    IF results # <<>>
    THEN <<"\n\nRelevant Document Snippets:\n">> \o SnippetBlocks(results)
    ELSE <<"\n\nNo relevant documents found in the search index for this query.">>

SourcesOf_LastOnly(results) ==
    IF results = <<>> THEN {} ELSE {SourceFile(results[Len(results)])}

\* Lines 77-82: source_files.add(source_file) for every result.
SourcesOf(results) == {SourceFile(results[i]) : i \in 1..Len(results)}

SearchErrorContext_Unset == <<>>

\* Line 87.
SearchErrorContext == <<"\n\nError retrieving documents from search index.">>

\* Line 89.
SearchNotConfiguredContext == <<"\n\nAzure AI Search service is not configured.">>

\* The orders a set object can iterate in.
Orders(S) ==
    {f \in [1..Cardinality(S) -> S] : \A i, j \in 1..Cardinality(S) : f[i] = f[j] => i = j}

\* Lines 69-89: context retrieval.
RetrieveFrom(r, hitsets) ==
    /\ pc[r] = "Retrieving"
    /\ pc' = [pc EXCEPT ![r] = "Completing"]
    /\ IF ~SearchConfigured
       THEN /\ search_context' = [search_context EXCEPT ![r] = SearchNotConfiguredContext]
            /\ UNCHANGED <<upstream, search_results, source_files, source_order,
                           calls, printed>>
       ELSE \/ \E e \in Diagnostics :
                \* search_documents prints and re-raises, chat_handler prints
                /\ calls' = [calls EXCEPT ![r] = Append(@, Call("search", TRUE, None))]
                /\ printed' = [printed EXCEPT ![r] = @ \o <<e, e>>]
                /\ search_context' = [search_context EXCEPT ![r] = SearchErrorContext]
                /\ UNCHANGED <<upstream, search_results, source_files, source_order>>
            \/ \E hits \in hitsets :
                LET found == SearchDocuments(hits) IN
                /\ calls' = [calls EXCEPT ![r] = Append(@, Call("search", FALSE, None))]
                /\ upstream' = [upstream EXCEPT ![r] = hits]
                /\ search_results' = [search_results EXCEPT ![r] = found]
                /\ search_context' = [search_context EXCEPT ![r] = ContextOf(found.results)]
                /\ source_files' = [source_files EXCEPT ![r] = SourcesOf(found.results)]
                /\ \E ord \in Orders(SourcesOf(found.results)) :
                      source_order' = [source_order EXCEPT ![r] = ord]
                /\ printed' = printed
    /\ UNCHANGED <<clock, docx>>
    /\ UNCHANGED <<SYSTEM_PROMPT, search_service, blob_service, container, body,
                   user_question, messages, completion, ai_response_text,
                   document_url, response, uploaded>>

Retrieve(r) == RetrieveFrom(r, UpstreamHits(TopN))

AiResponseText_EmptyFallback(choices) ==
    IF choices # <<>> THEN Str(choices[1]) ELSE Str(<<>>)

\* Line 100: the first choice's content, or the fixed fallback text.
AiResponseText(choices) ==
    IF choices # <<>> THEN Str(choices[1])
    ELSE Str(<<"Sorry, I could not generate a response.">>)

\* Lines 92-95.
Messages(system_prompt, context, question) ==
    <<[role |-> "system", content |-> Str(system_prompt \o context)],
      [role |-> "user", content |-> question]>>

\* Lines 91-103: prompt assembly and the completion call.
CompleteFrom(r, choicelists) ==
    /\ pc[r] = "Completing"
    /\ messages' = [messages EXCEPT ![r] =
                        Messages(SYSTEM_PROMPT, search_context[r], user_question[r])]
    /\ \/ \E e \in Diagnostics :
            \* get_openai_completion prints and re-raises, chat_handler prints
            /\ calls' = [calls EXCEPT ![r] = Append(@, Call("completion", TRUE, None))]
            /\ printed' = [printed EXCEPT ![r] = @ \o <<e, e>>]
            /\ response' = [response EXCEPT ![r] = CompletionError(e)]
            /\ pc' = [pc EXCEPT ![r] = "Errored"]
            /\ UNCHANGED <<completion, ai_response_text>>
       \/ \E choices \in choicelists :
            /\ calls' = [calls EXCEPT ![r] = Append(@, Call("completion", FALSE, None))]
            /\ completion' = [completion EXCEPT ![r] = [returned |-> TRUE, choices |-> choices]]
            /\ ai_response_text' = [ai_response_text EXCEPT ![r] = AiResponseText(choices)]
            /\ pc' = [pc EXCEPT ![r] = "Persisting"]
            /\ UNCHANGED <<response, printed>>
    /\ UNCHANGED <<clock, docx>>
    /\ UNCHANGED <<SYSTEM_PROMPT, search_service, blob_service, upstream, container, body,
                   user_question, search_results, search_context, source_files,
                   source_order, document_url, uploaded>>

Complete(r) == CompleteFrom(r, ChoiceLists)

\* Line 113: the blob name (raises unless the question is a str).
SimulatedBlobName(question, hex) ==
    <<"generated_docs/response_">>
        \o Replace(Slice(question.val, NamePrefixLen), " ", "_")
        \o <<"_">> \o hex \o <<".docx">>

\* ', '.join(items) over str items.
RECURSIVE Join(_)
Join(items) ==
    IF items = <<>> THEN <<>>
    ELSE IF Len(items) = 1 THEN items[1].val
    ELSE Join(SubSeq(items, 1, Len(items) - 1)) \o <<", ">> \o items[Len(items)].val

\* str.join raises TypeError on an item that is not a str.
JoinRaises(items) == \E i \in 1..Len(items) : ~IsStr(items[i])

\* Line 115: the text uploaded, encoded as UTF-8.
SimulatedContent(question, answer, sources) ==
    [encoding |-> "utf-8",
     text |-> <<"Question: ">> \o Format(question)
                \o <<"\n\nAnswer: ">> \o Format(answer)
                \o <<"\n\nSources: ">>
                \o (IF sources # <<>> THEN Join(sources) ELSE <<"N/A">>)]

\* blob_client.url
BlobUrl(blob_name) == <<"https://account.blob.core.windows.net/container/">> \o blob_name

UploadBlob_Append(blobs, document_content, blob_name, content_type) ==
    blobs \cup {[name |-> blob_name, content |-> document_content,
                 content_type |-> content_type]}

\* blob_client.upload_blob(document_content, overwrite=True, content_settings=...)
UploadBlob(blobs, document_content, blob_name, content_type) ==
    {b \in blobs : b.name # blob_name}
        \cup {[name |-> blob_name, content |-> document_content,
                content_type |-> content_type]}

UploadDocumentResult_AlwaysUrl(stored, blob_name) == Str(BlobUrl(blob_name))

\* upload_document: the URL when the blob was stored, None when the upload raised.
UploadDocumentResult(stored, blob_name) ==
    IF stored THEN Str(BlobUrl(blob_name)) ELSE None

\* Lines 105-121: the document stage.
Persist(r) ==
    /\ pc[r] = "Persisting"
    /\ pc' = [pc EXCEPT ![r] = "Responding"]
    /\ IF ~StoreConfigured
       THEN UNCHANGED <<document_url, calls, uploaded, container, printed>>
       ELSE IF ~IsStr(user_question[r])
       THEN \* user_question[:20] raises TypeError
            /\ printed' = [printed EXCEPT ![r] = Append(@, <<"TypeError">>)]
            /\ UNCHANGED <<document_url, calls, uploaded, container>>
       ELSE IF JoinRaises(source_order[r])
       THEN \* ', '.join(source_files) raises TypeError
            /\ printed' = [printed EXCEPT ![r] = Append(@, <<"TypeError">>)]
            /\ UNCHANGED <<document_url, calls, uploaded, container>>
       ELSE \E hex \in RandomHex, stored \in BOOLEAN :
            LET simulated_blob_name == SimulatedBlobName(user_question[r], hex)
                simulated_content ==
                    SimulatedContent(user_question[r], ai_response_text[r], source_order[r])
                url == UploadDocumentResult(stored, simulated_blob_name)
            IN
            /\ calls' = [calls EXCEPT ![r] = Append(@, Call("upload", FALSE, url))]
            /\ uploaded' = [uploaded EXCEPT ![r] =
                    [called |-> TRUE, stored |-> stored,
                     document_content |-> simulated_content,
                     blob_name |-> simulated_blob_name, content_type |-> "text/plain"]]
            /\ document_url' = [document_url EXCEPT ![r] = url]
            /\ IF stored
               THEN /\ container' = UploadBlob(container, simulated_content,
                                               simulated_blob_name, "text/plain")
                    /\ printed' = printed
               ELSE \* upload_document catches the failure, prints it and returns None
                    \E e \in Diagnostics :
                    /\ printed' = [printed EXCEPT ![r] = Append(@, e)]
                    /\ UNCHANGED container
    /\ UNCHANGED <<clock, docx>>
    /\ UNCHANGED <<SYSTEM_PROMPT, search_service, blob_service, upstream, body, user_question,
                   search_results, search_context, source_files, source_order,
                   messages, completion, ai_response_text, response>>

ChatResult_NoUrl(answer, url, sources) ==
    [status |-> 200,
     body |-> [ai_response |-> answer, document_url |-> None, sources |-> sources]]

\* Lines 124-128: jsonify of the result, status 200.
ChatResult(answer, url, sources) ==
    [status |-> 200,
     body |-> [ai_response |-> answer, document_url |-> url, sources |-> sources]]

\* Lines 123-128.
Respond(r) ==
    /\ pc[r] = "Responding"
    /\ pc' = [pc EXCEPT ![r] = "Responded"]
    /\ response' = [response EXCEPT ![r] =
            ChatResult(ai_response_text[r], document_url[r], source_order[r])]
    /\ UNCHANGED <<clock, docx>>
    /\ UNCHANGED <<SYSTEM_PROMPT, search_service, blob_service, upstream, container, body,
                   user_question, search_results, search_context, source_files,
                   source_order, messages, completion, ai_response_text,
                   document_url, calls, uploaded, printed>>

\* One request handled by the process.
Next ==
    \E r \in {"r1"} :
        \/ Receive(r)
        \/ Retrieve(r)
        \/ Complete(r)
        \/ Persist(r)
        \/ Respond(r)

Spec == Init /\ [][Next]_vars

\* ------------------------------------------------- the store on its own
\* upload_document called directly, any number of times, by the clients of
\* the store.
DocxContentType == "application/vnd.openxmlformats-officedocument.wordprocessingml.document"

StoreNames == {<<"one.docx">>, <<"two.docx">>}

StoreContents ==
    {[encoding |-> "utf-8", text |-> <<"first">>],
     [encoding |-> "utf-8", text |-> <<"second">>]}

InitStore ==
    /\ Init
    /\ SYSTEM_PROMPT = <<"You are a helpful AI assistant.">>
    /\ search_service = "None"
    /\ blob_service = "BlobStorageService"

\* blob_storage_service.py lines 44-69: one call of upload_document.
UploadDocument(r, document_content, blob_name, content_type) ==
    /\ Len(calls[r]) < MaxUploads
    /\ \E stored \in BOOLEAN :
        LET url == UploadDocumentResult(stored, blob_name) IN
        /\ calls' = [calls EXCEPT ![r] = Append(@, Call("upload", FALSE, url))]
        /\ uploaded' = [uploaded EXCEPT ![r] =
                [called |-> TRUE, stored |-> stored,
                 document_content |-> document_content,
                 blob_name |-> blob_name, content_type |-> content_type]]
        /\ document_url' = [document_url EXCEPT ![r] = url]
        /\ IF stored
           THEN /\ container' = UploadBlob(container, document_content,
                                           blob_name, content_type)
                /\ printed' = printed
           ELSE \E e \in Diagnostics :
                /\ printed' = [printed EXCEPT ![r] = Append(@, e)]
                /\ UNCHANGED container
    /\ UNCHANGED <<clock, docx>>
    /\ UNCHANGED <<SYSTEM_PROMPT, search_service, blob_service, upstream, pc, body,
                   user_question, search_results, search_context, source_files,
                   source_order, messages, completion, ai_response_text, response>>

NextStore ==
    \E r \in Requests, document_content \in StoreContents, blob_name \in StoreNames :
        UploadDocument(r, document_content, blob_name, DocxContentType)

SpecStore == InitStore /\ [][NextStore]_vars

\* ------------------------------------------- document_generator.py
\* The characters str.isalnum() holds of, among those drawn.
AlnumChars == {"a", "b"}

IsAlnum(c) == c \in AlnumChars

\* Line 122: "".join(c if c.isalnum() else "_" for c in question[:30])
SafeQuestion(question) ==
    [i \in 1..Min(Len(question), SafePrefixLen) |->
        IF IsAlnum(question[i]) THEN question[i] ELSE "_"]

\* strftime to the second: ticks within one second give one text.
Second(now) == ToString(now \div TicksPerSecond)

\* Line 123.
DocxBlobName(timestamp, question) ==
    <<"ddq_responses/", timestamp, "_">> \o SafeQuestion(question) \o <<".docx">>

Paragraph(text, style, alignment) == [text |-> text, style |-> style, alignment |-> alignment]

\* Lines 57-77: title, timestamp, rule, question and answer.
BodyParagraphs(question, answer, now) ==
    <<Paragraph(<<"DDQ Response">>, "Title", "CENTER"),
      Paragraph(<<"Generated on: ", Second(now)>>, "Normal", "RIGHT"),
      Paragraph([i \in 1..RuleWidth |-> "_"], "Normal", "LEFT"),
      Paragraph(<<"Question:">>, "Heading", "LEFT"),
      Paragraph(question, "Normal", "LEFT"),
      Paragraph(<<>>, "Normal", "LEFT"),
      Paragraph(<<"Answer:">>, "Heading", "LEFT"),
      Paragraph(answer, "Normal", "LEFT")>>

SourceParagraphs_AlwaysHeading(sources) ==
    <<Paragraph(<<>>, "Normal", "LEFT"), Paragraph(<<"Sources:">>, "Heading", "LEFT")>>
        \o [i \in 1..Len(sources) |->
                Paragraph(<<"<bullet> ">> \o Format(sources[i]), "Source", "LEFT")]

\* Lines 79-89: the sources block, one line for each element of sources.
SourceParagraphs(sources) ==
    IF sources = <<>> THEN <<>>
    ELSE <<Paragraph(<<>>, "Normal", "LEFT"), Paragraph(<<"Sources:">>, "Heading", "LEFT")>>
            \o [i \in 1..Len(sources) |->
                    Paragraph(<<"<bullet> ">> \o Format(sources[i]), "Source", "LEFT")]

\* create_docx_document: the document saved to bytes.
CreateDocxDocument(question, answer, sources, now) ==
    [encoding |-> "docx",
     paragraphs |-> BodyParagraphs(question, answer, now) \o SourceParagraphs(sources),
     footer |-> Paragraph(<<"Hudson Advisors DDQ Assistant">>, "Normal", "CENTER")]

\* A question of one character more than the safe prefix, ending in last.
LongQuestion(last) == [i \in 1..(SafePrefixLen + 1) |-> IF i = SafePrefixLen + 1 THEN last ELSE "a"]

DocxQuestions == {<<"a", " ", "/">>, LongQuestion("a"), LongQuestion("b")}

DocxSourceLists ==
    {<<>>, <<Str(<<"A.pdf">>), Str(<<"A.pdf">>)>>, <<Str(<<"B.pdf">>), Str(<<"A.pdf">>)>>}

InitDocx ==
    /\ Init
    /\ SYSTEM_PROMPT = <<"You are a helpful AI assistant.">>
    /\ search_service = "None"

UnchangedChat ==
    UNCHANGED <<SYSTEM_PROMPT, search_service, blob_service, pc, body, user_question,
                upstream, search_results, search_context, source_files, source_order,
                messages, completion, ai_response_text, document_url, response,
                calls, uploaded, printed>>

\* Time passes.
Tick ==
    /\ clock < MaxClock
    /\ clock' = clock + 1
    /\ UNCHANGED <<container, docx>>
    /\ UnchangedChat

\* Lines 118-123: generate_and_upload_docx is called and names the blob.
GenName(c) ==
    /\ docx[c].pc = "Idle"
    /\ \E question \in DocxQuestions, sources \in DocxSourceLists :
        docx' = [docx EXCEPT ![c] =
                    [@ EXCEPT !.pc = "Named", !.question = question,
                              !.answer = <<"answer1">>, !.sources = sources,
                              !.timestamp = Second(clock),
                              !.blob_name = DocxBlobName(Second(clock), question)]]
    /\ UNCHANGED <<container, clock>>
    /\ UnchangedChat

\* Line 126: the document is rendered, or the rendering raises and the
\* function returns None (lines 136-138).
GenRender(c) ==
    /\ docx[c].pc = "Named"
    /\ \/ docx' = [docx EXCEPT ![c] =
                    [@ EXCEPT !.pc = "Rendered",
                              !.docx_bytes = CreateDocxDocument(docx[c].question,
                                    docx[c].answer, docx[c].sources, clock)]]
       \/ docx' = [docx EXCEPT ![c] = [@ EXCEPT !.pc = "Done"]]
    /\ UNCHANGED <<container, clock>>
    /\ UnchangedChat

\* Lines 129-135: the upload and the URL returned; a blob_service that is
\* None raises AttributeError and the function returns None.
GenUpload(c) ==
    /\ docx[c].pc = "Rendered"
    /\ IF ~StoreConfigured
       THEN /\ docx' = [docx EXCEPT ![c] = [@ EXCEPT !.pc = "Done"]]
            /\ UNCHANGED container
       ELSE \E stored \in BOOLEAN :
            /\ docx' = [docx EXCEPT ![c] =
                    [@ EXCEPT !.pc = IF stored THEN "Stored" ELSE "Done",
                              !.document_url =
                                    UploadDocumentResult(stored, docx[c].blob_name)]]
            /\ container' =
                    IF stored
                    THEN UploadBlob(container, docx[c].docx_bytes, docx[c].blob_name,
                                    DocxContentType)
                    ELSE container
    /\ UNCHANGED clock
    /\ UnchangedChat

NextDocx ==
    \/ Tick
    \/ \E c \in Callers : GenName(c) \/ GenRender(c) \/ GenUpload(c)

SpecDocx == InitDocx /\ [][NextDocx]_vars

\* ----------------------------------------------------------------- helpers
Range(s) == {s[i] : i \in 1..Len(s)}

CallsOf(r, name) == {i \in 1..Len(calls[r]) : calls[r][i].call = name}

Raised(r, name) == \E i \in CallsOf(r, name) : calls[r][i].raised

Returned(r, name) == \E i \in CallsOf(r, name) : ~calls[r][i].raised

Terminal(r) == pc[r] \in {"Responded", "Errored"}
\* ------------------------------------------------------------------ claims

\* C1: a request whose body is a JSON object with no prompt key, a null
\* prompt or an empty-string prompt is answered with HTTP 400 and
\* error = "No prompt provided".
C1_EmptyPromptIs400 ==
    \A r \in Requests :
        (/\ pc[r] # "Idle"
         /\ body[r].kind = "object"
         /\ body[r].prompt \in {Absent, None, Str(<<>>)})
        => /\ pc[r] = "Errored"
           /\ response[r].status = 400
           /\ response[r].body = [error |-> <<"No prompt provided">>]

C1_Witness ==
    \E r \in Requests :
        /\ body[r].kind = "object"
        /\ body[r].prompt = Absent
        /\ response[r].status = 400

\* C2: when the completion call raises, the request ends with HTTP 500 and
\* the fixed body error = "Failed to get response from AI model", which has
\* no token of any diagnostic the request printed, in every configuration
\* and after every search outcome.
C2_CompletionFailureIs500 ==
    \A r \in Requests :
        Raised(r, "completion")
        => /\ pc[r] = "Errored"
           /\ response[r].status = 500
           /\ response[r].body = [error |-> <<"Failed to get response from AI model">>]
           /\ \A d \in Range(printed[r]) :
                Range(d) \cap Range(response[r].body.error) = {}

C2_Witness ==
    \E r \in Requests :
        /\ Raised(r, "completion")
        /\ Returned(r, "search")
        /\ search_results[r].results # <<>>
        /\ StoreConfigured
        /\ response[r].status = 500

\* C3: when the search call raises and the completion call returns, the
\* request is not an error: the context is the fixed explanatory string, it
\* is what the system message carries, and the response is HTTP 200 with the
\* answer taken from the completion.
C3_SearchFailureDegrades ==
    \A r \in Requests :
        Raised(r, "search")
        => /\ search_context[r] = <<"\n\nError retrieving documents from search index.">>
           /\ response[r].status \in {0, 200, 500}
           /\ Returned(r, "completion")
              => /\ pc[r] # "Errored"
                 /\ messages[r][1].content = Str(SYSTEM_PROMPT \o search_context[r])
                 /\ pc[r] = "Responded"
                    => /\ response[r].status = 200
                       /\ response[r].body.ai_response =
                            IF completion[r].choices # <<>>
                            THEN Str(completion[r].choices[1])
                            ELSE Str(<<"Sorry, I could not generate a response.">>)

C3_Witness ==
    \E r \in Requests :
        /\ Raised(r, "search")
        /\ Returned(r, "completion")
        /\ pc[r] = "Responded"
        /\ response[r].status = 200
\* What the completion call's reply makes the answer: the first choice's
\* content, or the fallback text when there is no choice.
AnswerOf(r) ==
    IF completion[r].choices # <<>>
    THEN Str(completion[r].choices[1])
    ELSE Str(<<"Sorry, I could not generate a response.">>)

\* The sourceFile values of the snippets the search call returned.
SnippetSources(r) ==
    {search_results[r].results[i].sourceFile : i \in 1..Len(search_results[r].results)}

NoDuplicates(s) == \A i, j \in 1..Len(s) : s[i] = s[j] => i = j

\* Building the blob name or the content raised before upload_document.
BuildRaised(r) ==
    \/ ~IsStr(user_question[r])
    \/ \E f \in source_files[r] : ~IsStr(f)

\* The document stage ran with a store configured and failed.
DocumentStageFailed(r) ==
    /\ blob_service # "None"
    /\ pc[r] \in {"Responding", "Responded"}
    /\ \/ BuildRaised(r)
       \/ uploaded[r].called /\ ~uploaded[r].stored

\* C4: after a completion that returned, a failure of the document stage
\* (the name or content cannot be built, or upload_document returns None)
\* leaves document_url null and the response at HTTP 200 with the answer of
\* the completion and the sources of the search; no error response follows a
\* completion that returned.
C4_DocumentFailureIsLocal ==
    \A r \in Requests :
        /\ Returned(r, "completion") => pc[r] # "Errored" /\ response[r].status \in {0, 200}
        /\ DocumentStageFailed(r)
           => /\ document_url[r] = None
              /\ pc[r] = "Responded"
                 => /\ response[r].status = 200
                    /\ response[r].body.document_url = None
                    /\ response[r].body.ai_response = AnswerOf(r)
                    /\ NoDuplicates(response[r].body.sources)
                    /\ Range(response[r].body.sources) = SnippetSources(r)

C4_Witness ==
    \E r \in Requests :
        /\ pc[r] = "Responded"
        /\ uploaded[r].called /\ ~uploaded[r].stored
        /\ response[r].status = 200
        /\ response[r].body.sources # <<>>

\* C5: with no document store configured, no request calls upload_document
\* and every request at the response stage has document_url null.
C5_NoStoreNoUpload ==
    blob_service = "None"
    => /\ container = {}
       /\ \A r \in Requests :
            /\ CallsOf(r, "upload") = {}
            /\ ~uploaded[r].called
            /\ pc[r] \in {"Responding", "Responded"} => document_url[r] = None
            /\ pc[r] = "Responded" => response[r].body.document_url = None

C5_Witness ==
    \E r \in Requests :
        /\ blob_service = "None"
        /\ pc[r] = "Responded"
        /\ response[r].status = 200

\* C6: in a 200 response the sources list has no name twice and holds
\* exactly the sourceFile values of the snippets the search returned; the
\* content handed to upload_document is built from that same list.
C6_SourcesAreDistinct ==
    \A r \in Requests :
        pc[r] = "Responded"
        => /\ response[r].status = 200
           /\ NoDuplicates(response[r].body.sources)
           /\ Range(response[r].body.sources) = SnippetSources(r)
           /\ uploaded[r].called
              => uploaded[r].document_content =
                    SimulatedContent(user_question[r], response[r].body.ai_response,
                                     response[r].body.sources)

C6_Witness ==
    \E r \in Requests :
        /\ pc[r] = "Responded"
        /\ Len(search_results[r].results) = 2
        /\ search_results[r].results[1].sourceFile = search_results[r].results[2].sourceFile
        /\ search_results[r].results[1].content # search_results[r].results[2].content
        /\ response[r].body.sources = <<Str(<<"A.pdf">>)>>
        /\ uploaded[r].called

CallCount(r, name) == Cardinality(CallsOf(r, name))

\* C7 as claimed: every external call is made at most once per request, and
\* a request that reaches the 200 response with search and store both
\* configured has made each of the three calls exactly once.
C7_ExactlyOnceEach ==
    \A r \in Requests :
        /\ \A name \in {"search", "completion", "upload"} : CallCount(r, name) <= 1
        /\ (pc[r] = "Responded" /\ search_service # "None" /\ blob_service # "None")
           => \A name \in {"search", "completion", "upload"} : CallCount(r, name) = 1

\* C7 amended: every external call is made at most once per request; a
\* request that reaches the 200 response with search and store both
\* configured has made the search and completion calls exactly once, and the
\* upload call exactly once unless building the blob name or content raised,
\* in which case upload_document was not called.
C7_AtMostOnceEach ==
    \A r \in Requests :
        /\ \A name \in {"search", "completion", "upload"} : CallCount(r, name) <= 1
        /\ (pc[r] = "Responded" /\ search_service # "None" /\ blob_service # "None")
           => /\ CallCount(r, "search") = 1
              /\ CallCount(r, "completion") = 1
              /\ CallCount(r, "upload") = IF BuildRaised(r) THEN 0 ELSE 1

C7_Witness ==
    \E r \in Requests :
        /\ pc[r] = "Responded"
        /\ search_service # "None" /\ blob_service # "None"
        /\ Raised(r, "search")
        /\ uploaded[r].called /\ ~uploaded[r].stored
        /\ Len(calls[r]) = 3

\* C8: a completion that returns with no choice does not fail the request:
\* the answer is "Sorry, I could not generate a response.", the request goes
\* on to the document stage and a 200 response; with at least one choice the
\* answer is the first choice's content.
C8_FallbackAnswer ==
    \A r \in Requests :
        completion[r].returned
        => /\ pc[r] \in {"Persisting", "Responding", "Responded"}
           /\ ai_response_text[r] =
                IF completion[r].choices = <<>>
                THEN Str(<<"Sorry, I could not generate a response.">>)
                ELSE Str(completion[r].choices[1])
           /\ pc[r] = "Responded"
              => /\ response[r].status = 200
                 /\ response[r].body.ai_response = ai_response_text[r]

C8_Witness ==
    \E r \in Requests :
        /\ completion[r].returned
        /\ completion[r].choices = <<>>
        /\ uploaded[r].called
        /\ pc[r] = "Responded"
        /\ response[r].body.ai_response = Str(<<"Sorry, I could not generate a response.">>)

FixedErrors ==
    {<<"No prompt provided">>, <<"Failed to get response from AI model">>,
     <<"An internal server error occurred">>}

\* C9: every request that ends has a response of status 200, 400 or 500; a
\* body that is no JSON object ends in HTTP 500 with the fixed message "An
\* internal server error occurred"; every error body is one of the three
\* fixed strings and has no token of a diagnostic the request printed.
C9_OuterBoundary ==
    \A r \in Requests :
        /\ Terminal(r) => response[r].status \in {200, 400, 500}
        /\ pc[r] = "Errored" <=> response[r].status \in {400, 500}
        /\ (pc[r] # "Idle" /\ body[r].kind # "object")
           => /\ response[r].status = 500
              /\ response[r].body = [error |-> <<"An internal server error occurred">>]
        /\ response[r].status \in {400, 500}
           => /\ DOMAIN response[r].body = {"error"}
              /\ response[r].body.error \in FixedErrors
              /\ \A d \in Range(printed[r]) :
                    Range(d) \cap Range(response[r].body.error) = {}

C9_Witness ==
    \E r \in Requests :
        /\ body[r].kind = "array"
        /\ pc[r] = "Errored"
        /\ response[r].status = 500
        /\ printed[r] # <<>>

\* C10: a request whose search returned snippets, whose completion returned
\* at least one choice and whose upload returned a URL u is answered with
\* HTTP 200 and exactly the fields ai_response (the first choice's content),
\* document_url = u and sources (the snippets' sourceFile values); u is the
\* URL of the blob that upload stored.
C10_HappyPath ==
    \A r \in Requests :
        (/\ pc[r] = "Responded"
         /\ search_results[r].results # <<>>
         /\ completion[r].choices # <<>>
         /\ \E i \in CallsOf(r, "upload") : calls[r][i].returned # None)
        => /\ response[r].status = 200
           /\ DOMAIN response[r].body = {"ai_response", "document_url", "sources"}
           /\ response[r].body.ai_response = Str(completion[r].choices[1])
           /\ \A i \in CallsOf(r, "upload") :
                response[r].body.document_url = calls[r][i].returned
           /\ \E b \in container :
                /\ b.name = uploaded[r].blob_name
                /\ response[r].body.document_url = Str(BlobUrl(b.name))
           /\ NoDuplicates(response[r].body.sources)
           /\ Range(response[r].body.sources) = SnippetSources(r)

C10_Witness ==
    \E r \in Requests :
        /\ pc[r] = "Responded"
        /\ user_question[r] = Str(LongString)
        /\ Len(search_results[r].results) = 1
        /\ Len(completion[r].choices) = 1
        /\ uploaded[r].stored
        /\ response[r].body.document_url # None
        /\ response[r].body.sources = <<Str(<<"A.pdf">>)>>
\* The place of a modelled source name in Python's order of str ("" first,
\* then by code point).
NameRank(v) ==
    CASE v = Str(<<>>) -> 0
      [] v = Str(<<"A.pdf">>) -> 1
      [] v = Str(<<"B.pdf">>) -> 2
      [] v = Str(<<"Unknown Source">>) -> 3
      [] OTHER -> 4

\* C11 as claimed: the sources list of a 200 response is in sorted order,
\* so one set of names always gives one list.
C11_SourcesSorted ==
    \A r \in Requests :
        pc[r] = "Responded"
        => \A i, j \in 1..Len(response[r].body.sources) :
              i < j => NameRank(response[r].body.sources[i])
                          < NameRank(response[r].body.sources[j])
\* The place of an external call in the handler's order of stages.
StageRank(name) ==
    CASE name = "search" -> 1
      [] name = "completion" -> 2
      [] name = "upload" -> 3

\* The moves of a request from stage to stage.
StageMoves ==
    {<<"Idle", "Retrieving">>, <<"Idle", "Errored">>,
     <<"Retrieving", "Completing">>,
     <<"Completing", "Persisting">>, <<"Completing", "Errored">>,
     <<"Persisting", "Responding">>,
     <<"Responding", "Responded">>}

StageOrder(r) ==
    \* the calls are made in the order search, completion, upload
    /\ \A i, j \in 1..Len(calls[r]) :
          i < j => StageRank(calls[r][i].call) < StageRank(calls[r][j].call)
    \* no call before the prompt is validated
    /\ calls[r] # <<>>
       => /\ body[r].kind = "object"
          /\ body[r].prompt.type \in {"string", "number"}
          /\ body[r].prompt.val \notin {<<>>, <<"0">>}
          /\ user_question[r] = body[r].prompt
    \* the search stage is over before the prompt is assembled and sent
    /\ messages[r] # <<>> => pc[r] \notin {"Idle", "Retrieving"}
    /\ CallsOf(r, "completion") # {}
       => /\ messages[r] # <<>>
          /\ search_service # "None" => CallsOf(r, "search") # {}
          /\ search_service = "None"
             => search_context[r] = <<"\n\nAzure AI Search service is not configured.">>
    \* no upload unless the completion returned
    /\ CallsOf(r, "upload") # {} => Returned(r, "completion")
    \* one outcome, and only at the end
    /\ response[r] # NoResponse <=> Terminal(r)
    /\ pc[r] = "Responded" => response[r].status = 200
    /\ pc[r] = "Errored" => response[r].status \in {400, 500}

StageStep(r) ==
    /\ pc'[r] # pc[r] => <<pc[r], pc'[r]>> \in StageMoves
    /\ Terminal(r)
       => /\ pc'[r] = pc[r]
          /\ calls'[r] = calls[r]
          /\ response'[r] = response[r]

\* C13: a request moves through validation, search, prompt assembly,
\* completion, upload and response in that order and ends in one outcome,
\* Responded or Errored: no call before the prompt is validated, no
\* completion call before the search stage is over, no upload unless the
\* completion returned, nothing after the outcome.
C13_StageOrder ==
    /\ [](\A r \in Requests : StageOrder(r))
    /\ [][\A r \in Requests : StageStep(r)]_vars

C13_Witness ==
    \E r \in Requests :
        /\ pc[r] = "Responded"
        /\ Len(calls[r]) = 3
        /\ calls[r][1].call = "search"
        /\ calls[r][2].call = "completion"
        /\ calls[r][3].call = "upload"

\* C14 as claimed: a hit the index returns without a sourceFile field is
\* recorded under the name "Unknown Source", in the context block and in the
\* sources; a hit without a content field has the content "".
C14_UnknownSourcePlaceholder ==
    \A r \in Requests :
        \A i \in 1..Len(upstream[r]) :
            /\ upstream[r][i].sourceFile = Absent
               => /\ Str(<<"Unknown Source">>) \in source_files[r]
                  /\ \E k \in 1..Len(search_context[r]) :
                        search_context[r][k] = "Unknown Source"
                  /\ pc[r] = "Responded"
                     => Str(<<"Unknown Source">>) \in Range(response[r].body.sources)
            /\ upstream[r][i].content = Absent
               => search_results[r].results[i].content = Str(<<>>)
\* The blobs of the container that go by this name.
BlobsNamed(blobs, name) == {b \in blobs : b.name = name}

\* What one more upload_document call of request r did to the container.
UploadEffect(r) ==
    LET u == uploaded'[r] IN
    IF ~u.stored THEN container' = container
    ELSE /\ BlobsNamed(container', u.blob_name) =
                {[name |-> u.blob_name, content |-> u.document_content,
                  content_type |-> u.content_type]}
         /\ \A b \in container \cup container' :
                b.name # u.blob_name => (b \in container <=> b \in container')
         /\ UploadBlob(container', u.document_content, u.blob_name, u.content_type)
                = container'

\* C12: the container holds one content per blob name; a successful upload
\* makes its content the one held under its name and leaves every other
\* name as it was; the same upload once more changes nothing.
C12_UploadIdempotentByName ==
    /\ [](\A b1, b2 \in container : b1.name = b2.name => b1 = b2)
    /\ [][\A r \in Requests : Len(calls'[r]) > Len(calls[r]) => UploadEffect(r)]_vars

C12_Witness ==
    /\ uploaded["r1"].stored /\ uploaded["r2"].stored
    /\ uploaded["r1"].blob_name = uploaded["r2"].blob_name
    /\ uploaded["r1"].document_content # uploaded["r2"].document_content
    /\ Len(calls["r1"]) = 2
    /\ Cardinality(container) = 2

\* The characters a safe name fragment is made of.
IsSafeChar(c) == IsAlnum(c) \/ c = "_"

\* The question-derived part of a chat_handler blob name: what lies between
\* the folder prefix and the "_", suffix and extension.
ChatNameFragment(blob_name) == SubSeq(blob_name, 2, Len(blob_name) - 3)

\* The question-derived part of a generate_and_upload_docx blob name: what
\* lies between the folder, timestamp and "_" and the extension.
DocxNameFragment(blob_name) == SubSeq(blob_name, 4, Len(blob_name) - 1)

\* C15 as claimed: the question-derived fragment of the blob name holds only
\* alphanumeric characters and underscores and is a bounded prefix of the
\* question, in the name chat_handler builds and in the one
\* generate_and_upload_docx builds.
C15_NameFragmentSafe ==
    /\ \A r \in Requests :
        uploaded[r].stored
        => LET fragment == ChatNameFragment(uploaded[r].blob_name) IN
           /\ Len(fragment) <= NamePrefixLen
           /\ \A i \in 1..Len(fragment) : IsSafeChar(fragment[i])
    /\ \A c \in Callers :
        docx[c].pc # "Idle"
        => LET fragment == DocxNameFragment(docx[c].blob_name) IN
           /\ Len(fragment) <= SafePrefixLen
           /\ \A i \in 1..Len(fragment) : IsSafeChar(fragment[i])

\* The document the caller's URL leads to is the one that caller rendered.
OwnContentAtUrl(c) ==
    /\ docx[c].document_url = Str(BlobUrl(docx[c].blob_name))
    /\ \E b \in BlobsNamed(container, docx[c].blob_name) :
            b.content = docx[c].docx_bytes

\* C16 as claimed: two calls that name their blob within the same clock
\* second, for the same question or questions with the same name prefix, and
\* both store it, are stored under distinct blob names; neither overwrites
\* the other and each returned URL leads to that call's own content.
C16_CollisionResistantNames ==
    \A c1, c2 \in Callers :
        /\ c1 # c2
        /\ docx[c1].pc = "Stored"
        /\ docx[c2].pc = "Stored"
        /\ docx[c1].timestamp = docx[c2].timestamp
        => /\ docx[c1].blob_name # docx[c2].blob_name
           /\ OwnContentAtUrl(c1)
           /\ OwnContentAtUrl(c2)

\* The documents create_docx_document has returned.
Rendered == {c \in Callers : docx[c].docx_bytes # None}

\* The body paragraphs before the sources block.
FixedPartLen == 8

\* The texts of the paragraphs from position k on.
TextsFrom(paragraphs, k) == [i \in 1..(Len(paragraphs) - k + 1) |-> paragraphs[i + k - 1].text]

\* The names of a list in the order of their first occurrence.
RECURSIVE Unique(_)
Unique(names) ==
    IF names = <<>> THEN <<>>
    ELSE LET front == Unique(SubSeq(names, 1, Len(names) - 1))
             last == names[Len(names)] IN
         IF last \in Range(front) THEN front ELSE Append(front, last)

BulletLine(source) == <<"<bullet> ">> \o Format(source)

\* The fixed part: title, timestamp, separator, "Question:", the question,
\* a blank, "Answer:", the answer; then the sources block if and only if
\* sources is not empty.
DocxLayout(c) ==
    LET paragraphs == docx[c].docx_bytes.paragraphs IN
    /\ Len(paragraphs) >= FixedPartLen
    /\ paragraphs[1].text = <<"DDQ Response">> /\ paragraphs[1].style = "Title"
    /\ paragraphs[2].text[1] = "Generated on: "
    /\ \A i \in 1..Len(paragraphs[3].text) : paragraphs[3].text[i] = "_"
    /\ paragraphs[4].text = <<"Question:">> /\ paragraphs[4].style = "Heading"
    /\ paragraphs[5].text = docx[c].question
    /\ paragraphs[6].text = <<>>
    /\ paragraphs[7].text = <<"Answer:">> /\ paragraphs[7].style = "Heading"
    /\ paragraphs[8].text = docx[c].answer
    /\ (Len(paragraphs) > FixedPartLen) <=> (docx[c].sources # <<>>)
    /\ docx[c].sources # <<>>
       => /\ paragraphs[FixedPartLen + 1].text = <<>>
          /\ paragraphs[FixedPartLen + 2].text = <<"Sources:">>
          /\ paragraphs[FixedPartLen + 2].style = "Heading"
    /\ \A i \in 1..Len(paragraphs) :
            paragraphs[i].text = <<"Sources:">> => docx[c].sources # <<>>

RenderedFor(r) ==
    {CreateDocxDocument(user_question[r].val, ai_response_text[r].val, source_order[r], now) :
        now \in 0..MaxClock}

\* C19 as claimed: with a store configured, what the document stage of
\* chat_handler uploads is the rendered document for the request's question,
\* answer and sources, with the word-processing content type, and the URL
\* it returns is that upload's URL.
C19_DocumentStageIsPipeline ==
    \A r \in Requests :
        uploaded[r].called
        => /\ uploaded[r].document_content \in RenderedFor(r)
           /\ uploaded[r].content_type = DocxContentType
           /\ document_url[r] = UploadDocumentResult(uploaded[r].stored, uploaded[r].blob_name)

\* ------------------------------------------- requests handled concurrently
\* Two requests in flight at once, their stages interleaved in any order.
ConcBodies ==
    {[kind |-> "object", prompt |-> Str(<<"a">>), history |-> Absent],
     [kind |-> "object", prompt |-> Str(<<"a">>), history |-> EmptyList],
     [kind |-> "object", prompt |-> Str(<<"a", " ", "/">>), history |-> Absent],
     [kind |-> "object", prompt |-> Absent, history |-> EmptyList]}

ConcHits ==
    {<<>>,
     <<[sourceFile |-> Str(<<"A.pdf">>), content |-> Str(<<"c1">>)]>>,
     <<[sourceFile |-> Str(<<"B.pdf">>), content |-> Absent]>>}

ConcChoices == {<<>>} \cup {<<answer>> : answer \in Answers}

InitConc ==
    /\ Init
    /\ SYSTEM_PROMPT = <<"You are a helpful AI assistant.">>
    /\ blob_service = "BlobStorageService"

NextConc ==
    \E r \in Requests :
        \/ ReceiveFrom(r, ConcBodies)
        \/ RetrieveFrom(r, ConcHits)
        \/ CompleteFrom(r, ConcChoices)
        \/ Persist(r)
        \/ Respond(r)

SpecConc == InitConc /\ [][NextConc]_vars

\* Everything chat_handler holds for one request.
Locals(r) ==
    <<body[r], user_question[r], upstream[r], search_results[r], search_context[r],
      source_files[r], source_order[r], messages[r], completion[r],
      ai_response_text[r], document_url[r], response[r], calls[r], uploaded[r],
      printed[r]>>

\* The context block, given the request's own search call and its reply.
OwnContext(r) ==
    IF ~SearchConfigured THEN SearchNotConfiguredContext
    ELSE IF Raised(r, "search") THEN SearchErrorContext
    ELSE LET own == SearchDocuments(upstream[r]).results IN
         IF own = <<>>
         THEN <<"\n\nNo relevant documents found in the search index for this query.">>
         ELSE <<"\n\nRelevant Document Snippets:\n">> \o SnippetBlocks(own)

\* The source set, given the reply to the request's own search call.
OwnSources(r) ==
    IF Returned(r, "search") THEN SourcesOf(SearchDocuments(upstream[r]).results) ELSE {}

\* The URL, given the request's own upload call and its outcome.
OwnUrl(r) ==
    IF uploaded[r].called
    THEN UploadDocumentResult(uploaded[r].stored, uploaded[r].blob_name)
    ELSE None

\* What the request holds and answers is made of its own prompt and of the
\* replies to its own calls.
OwnResponse(r) ==
    /\ pc[r] # "Idle" /\ body[r].kind = "object"
       => user_question[r] = DictGet(body[r].prompt, None)
    /\ source_files[r] = OwnSources(r)
    /\ Range(source_order[r]) = OwnSources(r)
    /\ messages[r] # <<>>
       => messages[r] = Messages(SYSTEM_PROMPT, OwnContext(r), DictGet(body[r].prompt, None))
    /\ uploaded[r].called
       => /\ uploaded[r].blob_name
                \in {SimulatedBlobName(DictGet(body[r].prompt, None), hex) : hex \in RandomHex}
          /\ uploaded[r].document_content
                = SimulatedContent(DictGet(body[r].prompt, None), AnswerOf(r), source_order[r])
    /\ pc[r] = "Responded"
       => response[r] = ChatResult(AnswerOf(r), OwnUrl(r), source_order[r])

\* Two requests with the same prompt and the same replies get the same
\* response, whatever their history fields.
SameInputsSameResponse(r, q) ==
    (/\ Terminal(r) /\ Terminal(q)
     /\ body[r].kind = body[q].kind
     /\ body[r].prompt = body[q].prompt
     /\ upstream[r] = upstream[q]
     /\ source_order[r] = source_order[q]
     /\ completion[r] = completion[q]
     /\ calls[r] = calls[q])
    => response[r] = response[q]

\* C18: handling requests leaves SYSTEM_PROMPT, search_service and
\* blob_service as they are; a step of one request leaves what the other
\* request holds untouched; and under every interleaving each request's
\* source set, context, messages and response are made of its own prompt and
\* the replies to its own calls, not of the other request's nor of history.
C18_RequestsIndependent ==
    /\ [][UNCHANGED <<SYSTEM_PROMPT, search_service, blob_service>>]_vars
    /\ [][\A r \in Requests : pc'[r] = pc[r] => Locals(r)' = Locals(r)]_vars
    /\ [](\A r \in Requests : OwnResponse(r))
    /\ [](\A r, q \in Requests : SameInputsSameResponse(r, q))

\* Two requests answered with different prompts, histories and sources, and
\* each with a document of its own.
C18_Witness ==
    /\ pc["r1"] = "Responded" /\ pc["r2"] = "Responded"
    /\ body["r1"].prompt # body["r2"].prompt
    /\ body["r1"].history # body["r2"].history
    /\ source_files["r1"] # {} /\ source_files["r2"] # {}
    /\ source_files["r1"] # source_files["r2"]
    /\ response["r1"].body.ai_response # response["r2"].body.ai_response
    /\ uploaded["r1"].stored /\ uploaded["r2"].stored

====
